---- MODULE Spec2Model ----
(***************************************************************************)
(* Model of csb.statistics.mixtures (GaussianMixture and its variants      *)
(* SegmentMixture, SegmentMixture2 and ConformerMixture).                  *)
(*                                                                         *)
(* Number representation.                                                  *)
(*  - Coordinates live on an integer grid with one spatial axis; averages  *)
(*    of coordinates round down to the grid.  A rotation is the scalar 1.  *)
(*  - Weights, responsibilities and variances are exact rationals <<n,d>>  *)
(*    with d > 0 in lowest terms; <<0,0>> stands for NaN (0/0).            *)
(*  - self.sigma is only ever read as self.sigma**2, so the model keeps    *)
(*    the variance sigma2 = beta/alpha, the radicand of line 138.          *)
(*  - Logarithms are base 2 rounded down to an integer; the result of      *)
(*    log_sum_exp is a pair [e, r] standing for e + log2(r); exp of such a *)
(*    value is the exact rational 2^e * r and underflows to 0.             *)
(*  - Log-likelihoods are integers in units of 5, so that the initial      *)
(*    LL_prev = 1e10 of em is representable (2000000000).                  *)
(***************************************************************************)
EXTENDS Integers, Sequences, FiniteSets, TLC

\* ------------------------------------------------------------ bounds
MaxIter == 2      \* largest n_iter / longest annealing schedule
MaxOps == 2       \* number of public calls made on one instance

\* ------------------------------------------------------------ arithmetic
None == << >>

\* a sequence built element by element, held as a tuple of values
Vec(f) == f \o << >>
NaN == <<0, 0>>

Abs(a) == IF a < 0 THEN -a ELSE a

RECURSIVE GCD(_, _)
GCD(a, b) == IF b = 0 THEN a ELSE GCD(b, a % b)

Frac(n, d) == IF d = 0 THEN NaN ELSE LET g == GCD(Abs(n), d) IN <<n \div g, d \div g>>

IsNaN(p) == p[2] = 0

RAdd(p, q) ==
    IF IsNaN(p) \/ IsNaN(q) THEN NaN
    ELSE LET g == GCD(p[2], q[2])
         IN Frac(p[1] * (q[2] \div g) + q[1] * (p[2] \div g), (p[2] \div g) * q[2])

RMul(p, q) ==
    IF IsNaN(p) \/ IsNaN(q) THEN NaN
    ELSE LET g1 == GCD(Abs(p[1]), q[2])
             g2 == GCD(Abs(q[1]), p[2])
         IN Frac((p[1] \div g1) * (q[1] \div g2), (p[2] \div g2) * (q[2] \div g1))

\* p / q for q >= 0; x/0 is NaN for x = 0 (numpy's 0/0)
RDiv(p, q) == IF IsNaN(q) \/ q[1] = 0 THEN NaN ELSE RMul(p, <<q[2], q[1]>>)

RInt(a) == <<a, 1>>

RFloor(p) == p[1] \div p[2]

RLeq(p, q) == p[1] * q[2] <= q[1] * p[2]

RECURSIVE RSum(_)
RSum(seq) == IF seq = << >> THEN <<0, 1>> ELSE RAdd(Head(seq), RSum(Tail(seq)))

RECURSIVE ISum(_)
ISum(seq) == IF seq = << >> THEN 0 ELSE Head(seq) + ISum(Tail(seq))

RECURSIVE IMax(_)
IMax(seq) == IF Len(seq) = 1 THEN seq[1]
             ELSE LET r == IMax(Tail(seq)) IN IF seq[1] >= r THEN seq[1] ELSE r

RECURSIVE Pow2(_)
Pow2(x) == IF x <= 0 THEN 1 ELSE 2 * Pow2(x - 1)

\* numpy.sum(Z, 0): column sums of a matrix given as a sequence of rows
colsum(Z, K) == Vec([k \in 1..K |-> RSum(Vec([i \in 1..Len(Z) |-> Z[i][k]]))])

\* Z.T
transpose(A) == Vec([j \in 1..Len(A[1]) |-> Vec([i \in 1..Len(A) |-> A[i][j]])])

\* csb.math.log: floor(log2 q) for q > 0; log of 0 is clipped (log2(1e-300))
RECURSIVE Log2(_)
Log2(q) == IF q[1] <= 0 THEN -997
           ELSE IF q[1] >= 2 * q[2] THEN 1 + Log2(<<q[1], 2 * q[2]>>)
           ELSE IF q[1] < q[2] THEN Log2(<<2 * q[1], q[2]>>) - 1
           ELSE 0

log(q) == Log2(q)

\* csb.math.exp of a log-domain value [e, r]: 2^e * r, 0 on underflow
exp(v) == IF v.e < -1 THEN <<0, 1>>
          ELSE IF v.e <= 0 THEN RMul(<<1, Pow2(-v.e)>>, v.r)
          ELSE RMul(<<Pow2(IF v.e > 8 THEN 8 ELSE v.e), 1>>, v.r)

\* csb.math.log_sum_exp over axis 0 of a matrix of integer log values:
\* subtract the column maximum, exponentiate, sum, take the logarithm
log_sum_exp_col(col, m) ==
    [e |-> m, r |-> RSum(Vec([i \in 1..Len(col) |-> exp([e |-> col[i] - m, r |-> <<1, 1>>])]))]

log_sum_exp(A) ==
    Vec([j \in 1..Len(A[1]) |->
        log_sum_exp_col(Vec([i \in 1..Len(A) |-> A[i][j]]), IMax(Vec([i \in 1..Len(A) |-> A[i][j]])))])

\* numpy.clip(sigma**2, 1e-300, 1e300): the bounds lie outside every value
\* the model represents except 0
clip(q) == IF q[1] <= 0 /\ q[2] # 0 THEN <<1, 1000000>> ELSE q

\* ------------------------------------------------------------ class attributes
n_inner == 1
alpha_sigma == <<1, 10000>>
beta_sigma == <<1, 100>>
use_cache == TRUE
LL_prev0 == 2000000000

\* ------------------------------------------------------------ instrumentation
\* exc: the exception the running call has raised ("none": still running)
\* trace: the calls made so far by the running public call; ret: last return value
Raise(s, e) == [s EXCEPT !.exc = e, !.ret = None]
Log(s, ev) == [s EXCEPT !.trace = Append(@, ev)]
Begin(s) == [s EXCEPT !.exc = "none", !.ret = None, !.trace = << >>]

\* x bound to a name: F(x)
Let(x, F(_)) == F(x)

\* ------------------------------------------------------------ GaussianMixture
del_cache(s) == [s EXCEPT !.cache = None]

GaussianMixture__init__(cls, N, M, K, beta) ==
    del_cache(
    [cls |-> cls, K |-> K, N |-> N, M |-> M, beta |-> beta,
     Y |-> Vec([k \in 1..K |-> Vec([n \in 1..N |-> 0])]),
     R |-> Vec([m \in 1..M |-> Vec([k \in 1..K |-> 1])]),
     t |-> Vec([m \in 1..M |-> Vec([k \in 1..K |-> 0])]),
     sigma2 |-> Vec([k \in 1..K |-> <<1, 1>>]),
     w |-> Vec([k \in 1..K |-> Frac(1, K)]),
     Z |-> None, cache |-> << <<0>> >>, LL |-> << >>,
     exc |-> "none", ret |-> None, trace |-> << >>])

SegmentMixture2__init__(cls, N, M, K, beta) ==
    Let(GaussianMixture__init__(cls, N, M, K, beta), LAMBDA s : [s EXCEPT !.Y = s.Y[1]])

New(cls, N, M, K, beta) ==
    IF cls = "SegmentMixture2" THEN SegmentMixture2__init__(cls, N, M, K, beta)
    ELSE GaussianMixture__init__(cls, N, M, K, beta)

get_dimension(s, Z) ==
    3 * ((IF Len(Z) = s.M THEN 1 ELSE 0) * s.N + (IF Len(Z) = s.N THEN 1 ELSE 0) * s.M)

\* dot(X[m] - self.t[m,k], self.R[m,k])
back(s, X, m, k) == Vec([n \in 1..s.N |-> (X[m][n] - s.t[m][k]) * s.R[m][k]])

sq(a) == a * a

\* self.Y[k] exists for every k in range(K)
HasTemplates(s) == s.cls = "SegmentMixture2" \/ Len(s.Y) >= s.K

SegmentMixture_calculate_delta(s, X) ==
    Vec([n \in 1..s.N |-> Vec([k \in 1..s.K |->
        ISum(Vec([m \in 1..s.M |-> sq(s.Y[k][n] - back(s, X, m, k)[n])]))])])

SegmentMixture2_calculate_delta(s, X) ==
    Vec([n \in 1..s.N |-> Vec([k \in 1..s.K |->
        ISum(Vec([m \in 1..s.M |-> sq(s.Y[n] - back(s, X, m, k)[n])]))])])

ConformerMixture_calculate_delta(s, X) ==
    Vec([m \in 1..s.M |-> Vec([k \in 1..s.K |->
        ISum(Vec([n \in 1..s.N |-> sq(s.Y[k][n] - back(s, X, m, k)[n])]))])])

\* the value calculate_delta returns, or "IndexError" when a template is missing
calculate_delta(s, X) ==
    IF ~HasTemplates(s) THEN "IndexError"
    ELSE IF s.cls = "SegmentMixture" THEN SegmentMixture_calculate_delta(s, X)
    ELSE IF s.cls = "SegmentMixture2" THEN SegmentMixture2_calculate_delta(s, X)
    ELSE ConformerMixture_calculate_delta(s, X)

\* the get_delta event records whether the returned tensor is the one
\* calculate_delta gives at the current (Y, R, t)
get_delta(s, X, update_cache) ==
    IF s.exc # "none" THEN s
    ELSE IF ~HasTemplates(s) /\ ((update_cache /\ use_cache) \/ s.cache = None) THEN Raise(s, "IndexError")
    ELSE Let(calculate_delta(s, X), LAMBDA now :
         Let(IF update_cache /\ use_cache THEN [s EXCEPT !.cache = now] ELSE s, LAMBDA s1 :
         Let(IF s1.cache # None THEN s1.cache ELSE now, LAMBDA D :
             Log([s1 EXCEPT !.ret = D],
                 [f |-> "get_delta", ret |-> D, fresh |-> HasTemplates(s1) /\ D = now]))))

\* estimate_w without the division by sum(n)
estimate_w_unnormalized(s, Z) ==
    IF s.exc # "none" THEN s
    ELSE [Log(s, [f |-> "estimate_w"]) EXCEPT !.w = colsum(Z, s.K)]

estimate_w(s, Z) ==
    IF s.exc # "none" THEN s
    ELSE Let(colsum(Z, s.K), LAMBDA n :
         Let(RSum(n), LAMBDA total :
             [Log(s, [f |-> "estimate_w"]) EXCEPT !.w = Vec([k \in 1..s.K |-> RDiv(n[k], total)])]))

\* Z * D
times(Z, D) == Vec([i \in 1..Len(Z) |-> Vec([k \in 1..Len(Z[i]) |-> RMul(Z[i][k], RInt(D[i][k]))])])

\* alpha without the prior alpha_sigma
estimate_sigma_alpha_no_prior(s, N, n) == Vec([k \in 1..s.K |-> RMul(RInt(N), n[k])])

estimate_sigma_alpha(s, N, n) == Vec([k \in 1..s.K |-> RAdd(RMul(RInt(N), n[k]), alpha_sigma)])

estimate_sigma_beta(s, ZD) == Vec([k \in 1..s.K |-> RAdd(ZD[k], beta_sigma)])

estimate_sigma_sqrt(s, alpha, beta) ==
    [s EXCEPT !.sigma2 = Vec([k \in 1..s.K |-> RDiv(beta[k], alpha[k])]), !.ret = None]

estimate_sigma(s, X, Z) ==
    IF s.exc # "none" THEN s
    ELSE Let(get_delta(Log(s, [f |-> "estimate_sigma"]), X, TRUE), LAMBDA s1 :
         IF s1.exc # "none" THEN s1
         ELSE estimate_sigma_sqrt(s1,
                  estimate_sigma_alpha(s1, get_dimension(s1, Z), colsum(Z, s.K)),
                  estimate_sigma_beta(s1, colsum(times(Z, s1.ret), s.K))))

\* lines 161-163: the log-posterior of every item and component
e_step_log_posterior(s, D, dim) ==
    Vec([i \in 1..Len(D) |-> Vec([k \in 1..s.K |->
        RAdd(RAdd(RDiv(<<-D[i][k], 2>>, clip(s.sigma2[k])),
                  <<-(dim * log(s.sigma2[k])), 2>>),
             RInt(log(s.w[k])))])])

\* line 164: beta * Z.T
e_step_scale(beta, ZT) ==
    Vec([k \in 1..Len(ZT) |-> Vec([i \in 1..Len(ZT[k]) |-> RFloor(RMul(beta, ZT[k][i]))])])

\* line 165 left out: Z is not normalised
e_step_unnormalized(Z, lse) ==
    Vec([k \in 1..Len(Z) |-> Vec([i \in 1..Len(Z[k]) |-> [e |-> Z[k][i], r |-> <<1, 1>>]])])

\* line 165: Z -= log_sum_exp(Z)
e_step_normalize(Z, lse) ==
    Vec([k \in 1..Len(Z) |-> Vec([i \in 1..Len(Z[k]) |->
        [e |-> Z[k][i] - lse[i].e, r |-> RDiv(<<1, 1>>, lse[i].r)]])])

\* line 169: exp(Z).T
e_step_exp(Z) == transpose(Vec([k \in 1..Len(Z) |-> Vec([i \in 1..Len(Z[k]) |-> exp(Z[k][i])])]))

e_step_posterior(s, D) ==
    Let(e_step_scale(s.beta, transpose(e_step_log_posterior(s, D, get_dimension(s, D)))), LAMBDA Z :
        e_step_exp(e_step_normalize(Z, log_sum_exp(Z))))

\* e_step without the del_cache of line 167
e_step_keeps_cache(s, X) ==
    IF s.exc # "none" THEN s
    ELSE Let(get_delta(s, X, FALSE), LAMBDA s1 :
         IF s1.exc # "none" THEN s1
         ELSE Let(e_step_posterior(s1, s1.ret), LAMBDA Z :
              Log([s1 EXCEPT !.ret = Z], [f |-> "e_step", beta |-> s.beta, ret |-> Z])))

e_step(s, X) ==
    IF s.exc # "none" THEN s
    ELSE Let(get_delta(s, X, FALSE), LAMBDA s1 :
         IF s1.exc # "none" THEN s1
         ELSE Let(e_step_posterior(s1, s1.ret), LAMBDA Z :
              Log([del_cache(s1) EXCEPT !.ret = Z], [f |-> "e_step", beta |-> s.beta, ret |-> Z])))

\* ------------------------------------------------------------ csb.bio.utils
\* fit(X, Y): rotation and translation of the least-squares superposition,
\* such that Y ~ dot(X - t, R); on one axis the rotation is 1
fit(Xm, Yk) ==
    [R |-> 1, t |-> ISum(Vec([n \in 1..Len(Xm) |-> Xm[n] - Yk[n]])) \div Len(Xm)]

\* wfit(X, Y, w): the same with per-point weights w
wfit(Xm, Yk, wts) ==
    Let(RSum(wts), LAMBDA total :
        [R |-> 1,
         t |-> IF total[1] = 0 THEN 0
               ELSE RFloor(RDiv(RSum(Vec([n \in 1..Len(Xm) |-> RMul(wts[n], RInt(Xm[n] - Yk[n]))])), total))])

column(Z, k) == Vec([i \in 1..Len(Z) |-> Z[i][k]])

\* self.R[m,k,:,:], self.t[m,k,:] = T[m][k] for the pairs (m, k) the loops
\* reach: all of them, or those before the first missing template
assign_T(s, T) ==
    [s EXCEPT !.R = Vec([m \in 1..s.M |-> Vec([k \in 1..s.K |-> IF T[m][k] # None THEN T[m][k].R ELSE s.R[m][k]])]),
              !.t = Vec([m \in 1..s.M |-> Vec([k \in 1..s.K |-> IF T[m][k] # None THEN T[m][k].t ELSE s.t[m][k]])])]

\* ------------------------------------------------------------ SegmentMixture
SegmentMixture_estimate_Y(s, X, Z) ==
    [s EXCEPT !.Y = Vec([k \in 1..s.K |-> Vec([n \in 1..s.N |->
        ISum(Vec([m \in 1..s.M |-> back(s, X, m, k)[n]])) \div s.M])])]

SegmentMixture_estimate_T(s, X, Z) ==
    assign_T(s, Vec([m \in 1..s.M |-> Vec([k \in 1..s.K |-> wfit(X[m], s.Y[k], column(Z, k))])]))

\* ------------------------------------------------------------ SegmentMixture2
\* s = 1. / clip(self.sigma**2, 1e-308, 1e308), to two decimal places
SegmentMixture2_precision(s) ==
    Vec([k \in 1..s.K |-> <<RFloor(RMul(<<100, 1>>, RDiv(<<1, 1>>, clip(s.sigma2[k])))), 100>>])

SegmentMixture2_weighted(s, X, Z, sp, n) ==
    [s EXCEPT !.Y = Vec([a \in 1..s.N |->
        IF n[a][1] = 0 THEN 0
        ELSE RFloor(RDiv(RSum(Vec([k \in 1..s.K |->
                 RMul(RInt(ISum(Vec([m \in 1..s.M |-> back(s, X, m, k)[a]]))), RMul(Z[a][k], sp[k]))])),
                         n[a]))])]

SegmentMixture2_estimate_Y(s, X, Z) ==
    Let(SegmentMixture2_precision(s), LAMBDA sp :
        SegmentMixture2_weighted(s, X, Z, sp,
            Vec([a \in 1..s.N |-> RMul(RInt(s.M), RSum(Vec([k \in 1..s.K |-> RMul(Z[a][k], sp[k])])))])))

SegmentMixture2_estimate_T(s, X, Z) ==
    assign_T(s, Vec([m \in 1..s.M |-> Vec([k \in 1..s.K |-> wfit(X[m], s.Y, column(Z, k))])]))

\* ------------------------------------------------------------ ConformerMixture
\* the loops stop with IndexError at the first k without a template self.Y[k]
ConformerMixture_estimate_Y(s, X, Z) ==
    Let(colsum(Z, s.K), LAMBDA n :
    Let([s EXCEPT !.Y = Vec([k \in 1..Len(s.Y) |->
            IF k > s.K THEN s.Y[k]
            ELSE Vec([a \in 1..s.N |->
                     RFloor(RDiv(RSum(Vec([m \in 1..s.M |-> RMul(Z[m][k], RInt(back(s, X, m, k)[a]))])),
                                 clip(n[k])))])])], LAMBDA s1 :
        IF HasTemplates(s) THEN s1 ELSE Raise(s1, "IndexError")))

ConformerMixture_estimate_T(s, X, Z) ==
    Let(assign_T(s, Vec([m \in 1..s.M |-> Vec([k \in 1..s.K |->
                        IF HasTemplates(s) \/ (m = 1 /\ k <= Len(s.Y))
                        THEN fit(X[m], s.Y[k]) ELSE None])])), LAMBDA s1 :
        IF HasTemplates(s) THEN s1 ELSE Raise(s1, "IndexError"))

\* ------------------------------------------------------------ dispatch
estimate_Y(s, X, Z) ==
    IF s.exc # "none" THEN s
    ELSE Let(Log(s, [f |-> "estimate_Y"]), LAMBDA s1 :
         IF s.cls = "SegmentMixture" THEN SegmentMixture_estimate_Y(s1, X, Z)
         ELSE IF s.cls = "SegmentMixture2" THEN SegmentMixture2_estimate_Y(s1, X, Z)
         ELSE ConformerMixture_estimate_Y(s1, X, Z))

estimate_T(s, X, Z) ==
    IF s.exc # "none" THEN s
    ELSE Let(Log(s, [f |-> "estimate_T"]), LAMBDA s1 :
         IF s.cls = "SegmentMixture" THEN SegmentMixture_estimate_T(s1, X, Z)
         ELSE IF s.cls = "SegmentMixture2" THEN SegmentMixture2_estimate_T(s1, X, Z)
         ELSE ConformerMixture_estimate_T(s1, X, Z))

RECURSIVE m_step_inner(_, _, _, _)
m_step_inner(s, X, Z, i) ==
    IF i = 0 THEN s ELSE m_step_inner(estimate_T(estimate_Y(s, X, Z), X, Z), X, Z, i - 1)

\* m_step with estimate_sigma run before estimate_w
m_step_sigma_first(s, X, Z) ==
    IF s.exc # "none" THEN s
    ELSE estimate_w(
             estimate_sigma(m_step_inner(Log(s, [f |-> "m_step", beta |-> s.beta]), X, Z, n_inner),
                            X, Z),
             Z)

m_step(s, X, Z) ==
    IF s.exc # "none" THEN s
    ELSE estimate_sigma(
             estimate_w(m_step_inner(Log(s, [f |-> "m_step", beta |-> s.beta]), X, Z, n_inner), Z),
             X, Z)

\* ------------------------------------------------------------ likelihoods
\* - 0.5 * sum(Z * D / clip(sigma**2)), doubled
log_likelihood_quad(s, ZD) ==
    ISum(Vec([k \in 1..s.K |-> RFloor(RDiv(ZD[k], clip(s.sigma2[k])))]))

\* the value of L, in units of 5; 44/7 stands for 2 * pi
log_likelihood_L(s, D, Z, n, N) ==
    (- log_likelihood_quad(s, colsum(times(Z, D), s.K))
     - N * RFloor(RSum(Vec([k \in 1..s.K |-> RMul(n[k], RInt(log(RMul(<<44, 7>>, s.sigma2[k]))))])))
     + 2 * RFloor(RSum(Vec([k \in 1..s.K |-> RMul(n[k], RInt(log(s.w[k])))])))
     - ISum(Vec([k \in 1..s.K |-> log(s.sigma2[k])]))) \div 10

\* log-likelihood of the extended model
log_likelihood(s, X, Z) ==
    IF s.exc # "none" THEN s
    ELSE Let(get_delta(s, X, FALSE), LAMBDA s1 :
         IF s1.exc # "none" THEN s1
         ELSE Let(log_likelihood_L(s1, s1.ret, Z, colsum(Z, s.K), get_dimension(s1, Z)), LAMBDA L :
              Log([s1 EXCEPT !.ret = L], [f |-> "log_likelihood", ret |-> L])))

log_likelihood_reduced_p(s, D, N) ==
    Vec([i \in 1..Len(D) |-> Vec([k \in 1..s.K |->
        RFloor(RAdd(RAdd(RDiv(<<-D[i][k], 2>>, clip(s.sigma2[k])),
                         <<-(N * log(RMul(<<44, 7>>, s.sigma2[k]))), 2>>),
                    RInt(log(s.w[k]))))])])

log_likelihood_reduced_sum(lse) ==
    ISum(Vec([i \in 1..Len(lse) |-> lse[i].e + log(lse[i].r)])) \div 5

\* log-likelihood of the marginalized model
log_likelihood_reduced(s, X) ==
    IF s.exc # "none" THEN s
    ELSE Let(get_delta(s, X, FALSE), LAMBDA s1 :
         IF s1.exc # "none" THEN s1
         ELSE Let(log_likelihood_reduced_sum(log_sum_exp(transpose(
                      log_likelihood_reduced_p(s1, s1.ret, get_dimension(s1, s1.ret))))), LAMBDA L :
              Log([s1 EXCEPT !.ret = L], [f |-> "log_likelihood_reduced", ret |-> L])))

\* ------------------------------------------------------------ initialize
\* counts: the multinomial draw; c = repeat(arange(K), counts)
segment_of(counts, n) ==
    CHOOSE k \in 1..Len(counts) :
        /\ ISum(SubSeq(counts, 1, k - 1)) < n
        /\ n <= ISum(SubSeq(counts, 1, k))

\* initialize with a cumulative indicator: atom n is put in its segment and
\* in every later one
SegmentMixture_initialize_cumulative(s, X, counts) ==
    Let(Vec([n \in 1..s.N |-> Vec([k \in 1..s.K |->
            IF segment_of(counts, n) <= k THEN <<1, 1>> ELSE <<0, 1>>])]), LAMBDA Z :
        m_step([s EXCEPT !.Z = Z], X, Z))

SegmentMixture_initialize(s, X, counts) ==
    Let(Vec([n \in 1..s.N |-> Vec([k \in 1..s.K |->
            IF segment_of(counts, n) = k THEN <<1, 1>> ELSE <<0, 1>>])]), LAMBDA Z :
        m_step([s EXCEPT !.Z = Z], X, Z))

\* sel: permutation(M)[:K]
ConformerMixture_initialize(s, X, sel) ==
    Let(e_step(estimate_T([s EXCEPT !.Y = Vec([j \in 1..Len(sel) |-> X[sel[j]]])], X, None), X), LAMBDA s3 :
        IF s3.exc # "none" THEN s3
        ELSE estimate_sigma(estimate_w(s3, s3.ret), X, s3.ret))

\* the "return" event marks the end of the calls made by initialize
initialize(s, X, draw) ==
    IF s.exc # "none" THEN s
    ELSE Let(Log(s, [f |-> "initialize", beta |-> s.beta]), LAMBDA s1 :
         Let(IF s.cls = "ConformerMixture" THEN ConformerMixture_initialize(s1, X, draw)
             ELSE SegmentMixture_initialize(s1, X, draw), LAMBDA s2 :
             IF s2.exc # "none" THEN s2 ELSE Log([s2 EXCEPT !.ret = None], [f |-> "return"])))

\* ------------------------------------------------------------ em, anneal
\* abs(LL - LL_prev) < eps; eps is None or <<value>>, and a number is never < None
converged(LL, LL_prev, eps) == eps # None /\ Abs(LL - LL_prev) < eps[1]

\* self.Z = self.e_step(X); self.m_step(X, self.Z)
cycle(s, X) ==
    Let(e_step(s, X), LAMBDA s1 :
        IF s1.exc # "none" THEN s1 ELSE m_step([s1 EXCEPT !.Z = s1.ret], X, s1.ret))

\* lines 223-227: record and print the likelihood just returned
em_report(s, store_loglikelihood, output) ==
    Let(IF store_loglikelihood THEN [s EXCEPT !.LL = Append(@, s.ret)] ELSE s, LAMBDA s1 :
        IF output THEN Log(s1, [f |-> "print", ret |-> s.ret]) ELSE s1)

RECURSIVE em_loop(_, _, _, _, _, _, _, _)
em_loop(s, X, i, n_iter, verbose, store_loglikelihood, eps, LL_prev) ==
    IF i >= n_iter \/ s.exc # "none" THEN s
    ELSE Let(cycle(s, X), LAMBDA s3 :
         Let(verbose # 0 /\ i % verbose = 0, LAMBDA output :
             IF s3.exc # "none" THEN s3
             ELSE IF ~(store_loglikelihood \/ output) /\ eps = None
                  THEN em_loop(s3, X, i + 1, n_iter, verbose, store_loglikelihood, eps, LL_prev)
             ELSE Let(em_report(log_likelihood(s3, X, s3.Z), store_loglikelihood, output), LAMBDA s6 :
                      IF converged(s6.ret, LL_prev, eps) THEN s6
                      ELSE em_loop(s6, X, i + 1, n_iter, verbose, store_loglikelihood, eps, s6.ret))))

em(s, X, n_iter, verbose, init, store_loglikelihood, eps, draw) ==
    Let(IF init THEN initialize(s, X, draw) ELSE s, LAMBDA s1 :
    Let(IF store_loglikelihood /\ s1.exc = "none" THEN [s1 EXCEPT !.LL = << >>] ELSE s1, LAMBDA s2 :
        [em_loop(s2, X, 0, n_iter, verbose, store_loglikelihood, eps, LL_prev0) EXCEPT !.ret = None]))

\* lines 253-255
anneal_report(s, X, verbose, i) ==
    IF verbose # 0 /\ i % verbose = 0 /\ s.exc = "none"
    THEN Let(log_likelihood(s, X, s.Z), LAMBDA s1 :
             Log([s1 EXCEPT !.LL = Append(@, s1.ret)], [f |-> "print", ret |-> s1.ret]))
    ELSE s

RECURSIVE anneal_loop(_, _, _, _, _)
anneal_loop(s, X, betas, verbose, i) ==
    IF i >= Len(betas) \/ s.exc # "none" THEN s
    ELSE anneal_loop(anneal_report(cycle([s EXCEPT !.beta = betas[i + 1]], X), X, verbose, i),
                     X, betas, verbose, i + 1)

anneal(s, X, betas, verbose, draw) ==
    Let(initialize([s EXCEPT !.beta = betas[1]], X, draw), LAMBDA s1 :
    Let(IF verbose # 0 /\ s1.exc = "none" THEN [s1 EXCEPT !.LL = << >>] ELSE s1, LAMBDA s2 :
        [anneal_loop(s2, X, betas, verbose, 0) EXCEPT !.ret = None]))

\* ------------------------------------------------------------ clusters
\* the first index of the minimum
argmin(row) ==
    CHOOSE k \in 1..Len(row) :
        /\ \A j \in 1..Len(row) : RLeq(row[k], row[j])
        /\ \A j \in 1..(k - 1) : ~RLeq(row[j], row[k])

\* numpy.argmax: the first index of the maximum
argmax(row) ==
    CHOOSE k \in 1..Len(row) :
        /\ \A j \in 1..Len(row) : RLeq(row[j], row[k])
        /\ \A j \in 1..(k - 1) : ~RLeq(row[k], row[j])

\* where(c == k)[0]
where(c, k) == SelectSeq(Vec([m \in 1..Len(c) |-> m]), LAMBDA m : c[m] = k)

\* each array is given as the list of its rows [m, xyz]
superposed(s, X, ms, k) == Vec([j \in 1..Len(ms) |-> [m |-> ms[j], xyz |-> back(s, X, ms[j], k)]])

SegmentMixture_clusters(s, X) ==
    [s EXCEPT !.ret = Vec([k \in 1..s.K |-> superposed(s, X, Vec([m \in 1..s.M |-> m]), k)])]

ConformerMixture_clusters(s, X) ==
    Let(e_step(s, X), LAMBDA s1 :
        IF s1.exc # "none" THEN s1
        ELSE Let(Vec([m \in 1..Len(s1.ret) |-> argmax(s1.ret[m])]), LAMBDA c :
                 [s1 EXCEPT !.ret = Vec([k \in 1..s.K |-> superposed(s, X, where(c, k), k)])]))

clusters(s, X) ==
    IF s.cls = "ConformerMixture" THEN ConformerMixture_clusters(s, X)
    ELSE SegmentMixture_clusters(s, X)

\* ------------------------------------------------------------ inputs
MaxCoord == 1     \* coordinates are drawn from 0..MaxCoord

\* <<class, N, M, K>>: N = M, N # M, and more components than structures
Configs ==
    {<<"SegmentMixture", 3, 2, 2>>, <<"SegmentMixture2", 2, 2, 2>>,
     <<"ConformerMixture", 3, 2, 2>>, <<"ConformerMixture", 2, 2, 2>>,
     <<"ConformerMixture", 2, 2, 3>>}

\* the observed ensembles: X[m][n], structure m, atom n
Coordinates(M, N) ==
    {Vec([m \in 1..M |-> Vec([n \in 1..N |-> ((m * n) % 2) * MaxCoord])]),
     Vec([m \in 1..M |-> Vec([n \in 1..N |-> IF m + n = 3 THEN 0 ELSE MaxCoord + m - 1])])}

\* <<n_iter, eps, verbose, store_loglikelihood, initialize>>; eps is None or
\* <<value>>, the values being 0, 5 and 1.05e10 in units of 5
EmArgs ==
    {<<MaxIter, None, 0, FALSE, TRUE>>, <<MaxIter, None, 0, TRUE, FALSE>>,
     <<MaxIter, None, 2, FALSE, FALSE>>, <<MaxIter, <<0>>, 0, FALSE, FALSE>>,
     <<MaxIter, <<1>>, 0, FALSE, TRUE>>, <<MaxIter, <<1>>, 0, FALSE, FALSE>>,
     <<MaxIter, <<2100000000>>, 0, FALSE, TRUE>>, <<1, <<1>>, 2, TRUE, TRUE>>}

\* the outcomes of multinomial(N, w)
Compositions(N, K) == {c \in [1..K -> 0..N] : ISum(c) = N}

\* the outcomes of permutation(M)[:K]
Selections(M, K) ==
    LET L == IF K < M THEN K ELSE M
    IN {q \in [1..L -> 1..M] : \A i, j \in 1..L : i # j => q[i] # q[j]}

Draws(s) ==
    IF s.cls = "ConformerMixture" THEN Selections(s.M, s.K) ELSE Compositions(s.N, s.K)

\* the schedules: MaxIter temperatures going up or down, or a single one
Schedules ==
    {Vec([i \in 1..MaxIter |-> Frac(i, 2)]), Vec([i \in 1..MaxIter |-> Frac(2, i)])}

\* <<betas, verbose>>
AnnealArgs == {<<b, 0>> : b \in Schedules} \cup {<<<<b[1]>>, 1>> : b \in Schedules}

\* ------------------------------------------------------------ state machine
VARIABLES self, X, held, call, nops
vars == <<self, X, held, call, nops>>

\* the indicator matrices a caller can pass: self.Z or the last e_step result
ZArgs == {z \in {self.Z, held} : z # None}

Init ==
    /\ \E c \in Configs :
         /\ self = New(c[1], c[2], c[3], c[4], <<1, 1>>)
         /\ X \in Coordinates(c[3], c[2])
    /\ held = None
    /\ call = [op |-> "__init__"]
    /\ nops = 0

\* an exception propagates to the caller and ends the program: calls are made
\* while the budget lasts and no call has raised
CanCall == nops < MaxOps /\ self.exc = "none"

Done(s, c) ==
    /\ self' = s
    /\ call' = c
    /\ nops' = nops + 1
    /\ X' = X

Initialize ==
    /\ CanCall
    /\ \E draw \in Draws(self) :
         Done(initialize(Begin(self), X, draw), [op |-> "initialize", draw |-> draw])
    /\ held' = held

EStep ==
    /\ CanCall
    /\ Done(e_step(Begin(self), X), [op |-> "e_step"])
    /\ held' = self'.ret

MStep ==
    /\ CanCall
    /\ \E Z \in ZArgs : Done(m_step(Begin(self), X, Z), [op |-> "m_step", Z |-> Z])
    /\ held' = held

EstimateY ==
    /\ CanCall
    /\ \E Z \in ZArgs : Done(estimate_Y(Begin(self), X, Z), [op |-> "estimate_Y", Z |-> Z])
    /\ held' = held

EstimateT ==
    /\ CanCall
    /\ \E Z \in ZArgs : Done(estimate_T(Begin(self), X, Z), [op |-> "estimate_T", Z |-> Z])
    /\ held' = held

EstimateW ==
    /\ CanCall
    /\ \E Z \in ZArgs : Done(estimate_w(Begin(self), Z), [op |-> "estimate_w", Z |-> Z])
    /\ held' = held

EstimateSigma ==
    /\ CanCall
    /\ \E Z \in ZArgs : Done(estimate_sigma(Begin(self), X, Z), [op |-> "estimate_sigma", Z |-> Z])
    /\ held' = held

Em ==
    /\ CanCall
    /\ \E a \in EmArgs :
       \E draw \in IF a[5] THEN Draws(self) ELSE {None} :
         Done(em(Begin(self), X, a[1], a[3], a[5], a[4], a[2], draw),
              [op |-> "em", n_iter |-> a[1], verbose |-> a[3], initialize |-> a[5],
               store_loglikelihood |-> a[4], eps |-> a[2]])
    /\ held' = held

Anneal ==
    /\ CanCall
    /\ \E a \in AnnealArgs, draw \in Draws(self) :
         Done(anneal(Begin(self), X, a[1], a[2], draw),
              [op |-> "anneal", betas |-> a[1], verbose |-> a[2]])
    /\ held' = held

Clusters ==
    /\ CanCall
    /\ Done(clusters(Begin(self), X), [op |-> "clusters"])
    /\ held' = held

GetDelta ==
    /\ CanCall
    /\ \E update_cache \in BOOLEAN :
         Done(get_delta(Begin(self), X, update_cache), [op |-> "get_delta", update_cache |-> update_cache])
    /\ held' = held

LogLikelihood ==
    /\ CanCall
    /\ \E Z \in ZArgs : Done(log_likelihood(Begin(self), X, Z), [op |-> "log_likelihood", Z |-> Z])
    /\ held' = held

LogLikelihoodReduced ==
    /\ CanCall
    /\ Done(log_likelihood_reduced(Begin(self), X), [op |-> "log_likelihood_reduced"])
    /\ held' = held

\* get_dimension(Z) for a Z with len(Z) = rows
GetDimension ==
    /\ CanCall
    /\ \E rows \in 1..4 :
         Done([Begin(self) EXCEPT !.ret = get_dimension(self, Vec([i \in 1..rows |-> << >>]))],
              [op |-> "get_dimension", rows |-> rows])
    /\ held' = held

Next ==
    \/ Initialize
    \/ EStep
    \/ MStep
    \/ EstimateY
    \/ EstimateT
    \/ EstimateW
    \/ EstimateSigma
    \/ Em
    \/ Anneal
    \/ Clusters
    \/ GetDelta
    \/ LogLikelihood
    \/ LogLikelihoodReduced
    \/ GetDimension

Spec == Init /\ [][Next]_vars

\* ------------------------------------------------------------ reading the trace
\* the events of the running call made by the functions in fs, in call order
Events(fs) == SelectSeq(self.trace, LAMBDA ev : ev.f \in fs)

\* the position at which the initialize called by em or anneal ended: its
\* "return" event, the end of the trace when it raised, 0 when it was not called
InitEnd ==
    IF \E i \in 1..Len(self.trace) : self.trace[i].f = "return"
    THEN CHOOSE i \in 1..Len(self.trace) : self.trace[i].f = "return"
    ELSE IF \E i \in 1..Len(self.trace) : self.trace[i].f = "initialize" THEN Len(self.trace)
    ELSE 0

\* the events of the loop of em or anneal
LoopEvents(fs) ==
    SelectSeq(SubSeq(self.trace, InitEnd + 1, Len(self.trace)), LAMBDA ev : ev.f \in fs)

\* the loop ran c whole cycles: e_step, m_step (and the likelihood when with_LL)
IsCycles(c, with_LL) ==
    IF with_LL
    THEN /\ Len(LoopEvents({"e_step", "m_step", "log_likelihood"})) = 3 * c
         /\ \A j \in 1..c :
              /\ LoopEvents({"e_step", "m_step", "log_likelihood"})[3 * j - 2].f = "e_step"
              /\ LoopEvents({"e_step", "m_step", "log_likelihood"})[3 * j - 1].f = "m_step"
              /\ LoopEvents({"e_step", "m_step", "log_likelihood"})[3 * j].f = "log_likelihood"
    ELSE /\ Len(LoopEvents({"e_step", "m_step"})) = 2 * c
         /\ \A j \in 1..c :
              /\ LoopEvents({"e_step", "m_step"})[2 * j - 1].f = "e_step"
              /\ LoopEvents({"e_step", "m_step"})[2 * j].f = "m_step"

\* the log-likelihood of cycle j and the value it is compared with
CycleLL(j) == LoopEvents({"log_likelihood"})[j].ret
PrevLL(j) == IF j = 1 THEN LL_prev0 ELSE CycleLL(j - 1)
Met(j) == Abs(CycleLL(j) - PrevLL(j)) < call.eps[1]

\* ------------------------------------------------------------ C1
\* C1: every get_delta call, also the ones e_step, log_likelihood and
\* log_likelihood_reduced make, returns calculate_delta at the current
\* (Y, R, t), never a value cached before the last change of Y, R or t.
C1_CacheNeverStale ==
    \A i \in 1..Len(self.trace) : self.trace[i].f = "get_delta" => self.trace[i].fresh

\* ------------------------------------------------------------ C2
\* C2: em with a numeric eps runs at most n_iter cycles of one e_step then one
\* m_step, stops right after the first cycle whose log-likelihood differs from
\* the previous one (1e10 for the first cycle) by less than eps, and runs
\* exactly n_iter cycles when no cycle meets the criterion.
C2_EmStopsAtFirstConvergedCycle ==
    (call.op = "em" /\ call.eps # None) =>
        \E c \in 0..call.n_iter :
            /\ IsCycles(c, TRUE)
            /\ \A j \in 1..(c - 1) : ~Met(j)
            /\ c < call.n_iter => (c >= 1 /\ Met(c))

\* the same for the calls of em that return
C2_EmReturned ==
    (call.op = "em" /\ call.eps # None /\ self.exc = "none") =>
        \E c \in 0..call.n_iter :
            /\ IsCycles(c, TRUE)
            /\ \A j \in 1..(c - 1) : ~Met(j)
            /\ c < call.n_iter => (c >= 1 /\ Met(c))

\* em stopped before n_iter cycles, at the first cycle that met the criterion
C2_EarlyStop ==
    /\ call.op = "em" /\ call.eps # None /\ self.exc = "none"
    /\ call.n_iter = 2
    /\ IsCycles(1, TRUE)
    /\ Met(1)

\* ------------------------------------------------------------ C3
\* C3: anneal runs exactly len(betas) cycles of one e_step and one m_step, the
\* i-th with self.beta = betas[i], without early exit, and leaves self.beta at
\* the last entry.
C3_AnnealOneCyclePerBeta ==
    call.op = "anneal" =>
        /\ IsCycles(Len(call.betas), FALSE)
        /\ \A i \in 1..Len(call.betas) :
             /\ LoopEvents({"e_step", "m_step"})[2 * i - 1].beta = call.betas[i]
             /\ LoopEvents({"e_step", "m_step"})[2 * i].beta = call.betas[i]
        /\ self.beta = call.betas[Len(call.betas)]

\* the same for the calls of anneal that return
C3_AnnealReturned ==
    (call.op = "anneal" /\ self.exc = "none") =>
        /\ IsCycles(Len(call.betas), FALSE)
        /\ \A i \in 1..Len(call.betas) :
             /\ LoopEvents({"e_step", "m_step"})[2 * i - 1].beta = call.betas[i]
             /\ LoopEvents({"e_step", "m_step"})[2 * i].beta = call.betas[i]
        /\ self.beta = call.betas[Len(call.betas)]

\* ------------------------------------------------------------ C4
\* C4: in every reachable state w has length K, entries >= 0 that sum to 1,
\* and estimate_w(Z) sets w[k] to colsum(Z)[k] / sum(Z).
C4_WeightsAreProbabilities ==
    /\ Len(self.w) = self.K
    /\ \A k \in 1..self.K : ~IsNaN(self.w[k]) /\ self.w[k][1] >= 0
    /\ RSum(self.w) = <<1, 1>>
    /\ call.op = "estimate_w" =>
         \A k \in 1..self.K :
             self.w[k] = RDiv(RSum(column(call.Z, k)),
                              RSum(Vec([i \in 1..Len(call.Z) |-> RSum(call.Z[i])])))

\* estimate_w has set weights that are not the uniform ones of construction
C4_EstimatedNonUniform ==
    /\ call.op = "estimate_w"
    /\ \E k \in 1..self.K : self.w[k] # Frac(1, self.K)

\* ------------------------------------------------------------ C5
IsResponsibilities(Z) ==
    /\ Len(Z) = IF self.cls = "ConformerMixture" THEN self.M ELSE self.N
    /\ \A i \in 1..Len(Z) :
         /\ Len(Z[i]) = self.K
         /\ \A k \in 1..self.K : ~IsNaN(Z[i][k]) /\ Z[i][k][1] >= 0 /\ Z[i][k][1] <= Z[i][k][2]
         /\ RSum(Z[i]) = <<1, 1>>

\* C5: the matrix every e_step returns has one row per item (N rows for the
\* segment variants, M for ConformerMixture) and K columns, entries in [0,1],
\* and rows that sum to 1.
C5_EStepRowsArePosteriors ==
    \A i \in 1..Len(self.trace) :
        self.trace[i].f = "e_step" => IsResponsibilities(self.trace[i].ret)

\* an e_step at beta # 1 returned a row that is neither uniform nor hard
C5_TemperedPosterior ==
    \E i \in 1..Len(self.trace) :
        /\ self.trace[i].f = "e_step"
        /\ self.trace[i].beta # <<1, 1>>
        /\ \E r \in 1..Len(self.trace[i].ret), k \in 1..self.K :
             /\ self.trace[i].ret[r][k] # Frac(1, self.K)
             /\ self.trace[i].ret[r][k][1] > 0
             /\ self.trace[i].ret[r][k][1] < self.trace[i].ret[r][k][2]

\* ------------------------------------------------------------ C6
\* C6: every sigma[k] is strictly positive; after estimate_sigma(X, Z)
\* sigma[k]^2 = (colsum(Z*D)[k] + beta_sigma) / (dim * colsum(Z)[k] + alpha_sigma),
\* which is beta_sigma / alpha_sigma for a component of zero responsibility.
C6_SigmaPositive ==
    /\ \A k \in 1..self.K : self.sigma2[k][1] > 0 /\ self.sigma2[k][2] > 0
    /\ call.op = "estimate_sigma" =>
         \A k \in 1..self.K :
             /\ self.sigma2[k] =
                    RDiv(RAdd(RSum(column(times(call.Z, calculate_delta(self, X)), k)), beta_sigma),
                         RAdd(RMul(RInt(get_dimension(self, call.Z)), RSum(column(call.Z, k))),
                              alpha_sigma))
             /\ RSum(column(call.Z, k)) = <<0, 1>> => self.sigma2[k] = RDiv(beta_sigma, alpha_sigma)

\* estimate_sigma was called with a component of zero total responsibility
C6_EmptyComponent ==
    /\ call.op = "estimate_sigma"
    /\ \E k \in 1..self.K :
         /\ RSum(column(call.Z, k)) = <<0, 1>>
         /\ self.sigma2[k] = <<100, 1>>

\* ------------------------------------------------------------ C7
\* C7: get_dimension(Z) returns 3*N when len(Z) = M, 3*M when len(Z) = N
\* (also for N = M) and 0 when len(Z) is neither.
C7_GetDimension ==
    call.op = "get_dimension" =>
        self.ret = IF call.rows = self.M THEN 3 * self.N
                   ELSE IF call.rows = self.N THEN 3 * self.M
                   ELSE 0

\* ------------------------------------------------------------ C8
\* C8: after initialize returns on a fresh instance self.Z is no longer None
\* and holds a responsibility matrix with one row per item and K columns.
C8_InitializeSeedsZ ==
    (call.op = "initialize" /\ nops = 1 /\ self.exc = "none") =>
        self.Z # None /\ IsResponsibilities(self.Z)

\* ------------------------------------------------------------ C9
\* C9: after ConformerMixture.initialize Y still has K templates, each a
\* different observed structure, and estimate_T raised no index error.
C9_ConformerTemplates ==
    (call.op = "initialize" /\ self.cls = "ConformerMixture") =>
        /\ self.exc = "none"
        /\ Len(self.Y) = self.K
        /\ \E q \in [1..self.K -> 1..self.M] :
             /\ \A i, j \in 1..self.K : i # j => q[i] # q[j]
             /\ \A k \in 1..self.K : self.Y[k] = X[q[k]]

\* ------------------------------------------------------------ C10
\* the structures of the k-th array clusters returned
Members(k) == Vec([j \in 1..Len(self.ret[k]) |-> self.ret[k][j].m])

\* C10: ConformerMixture.clusters returns K arrays; every structure m is in
\* exactly one of them, once, the one of a component with the largest
\* responsibility for m in the e_step clusters ran, so the sizes sum to M.
C10_ClustersPartition ==
    (call.op = "clusters" /\ self.cls = "ConformerMixture") =>
        /\ Len(Events({"e_step"})) = 1
        /\ Len(self.ret) = self.K
        /\ ISum(Vec([k \in 1..self.K |-> Len(self.ret[k])])) = self.M
        /\ \A m \in 1..self.M :
             \E k \in 1..self.K :
                 /\ \E j \in 1..Len(self.ret[k]) : Members(k)[j] = m
                 /\ \A k2 \in 1..self.K :
                      /\ RLeq(Events({"e_step"})[1].ret[m][k2], Events({"e_step"})[1].ret[m][k])
                      /\ k2 # k => \A j \in 1..Len(self.ret[k2]) : Members(k2)[j] # m

\* clusters split the structures over two arrays, by unequal responsibilities
C10_TwoClusters ==
    /\ call.op = "clusters" /\ self.cls = "ConformerMixture"
    /\ \E k, k2 \in 1..self.K : k # k2 /\ self.ret[k] # << >> /\ self.ret[k2] # << >>
    /\ \E m \in 1..self.M, k, k2 \in 1..self.K :
         Events({"e_step"})[1].ret[m][k] # Events({"e_step"})[1].ret[m][k2]

\* ============================================================ csb.pyutils
\* Python values are tagged: [t |-> "int", v |-> 3], [t |-> "str", v |-> <<"D", "N", "A">>]
\* (a string is the sequence of its characters), [t |-> "float", v |-> <<3, 2>>]
\* and [t |-> "NoneType", v |-> 0].
PyInt(n) == [t |-> "int", v |-> n]
PyStr(cs) == [t |-> "str", v |-> cs]
PyFloat(q) == [t |-> "float", v |-> q]
PyNone == [t |-> "NoneType", v |-> 0]

\* a == b for two values; an int and a float are compared by value
IsNumber(a) == a.t \in {"int", "float"}
Num(a) == IF a.t = "int" THEN <<a.v, 1>> ELSE a.v
PyEq(a, b) ==
    IF IsNumber(a) /\ IsNumber(b) THEN Num(a) = Num(b)
    ELSE a.t = b.t /\ a.v = b.v

\* isinstance(a, basestring), isinstance(a, int)
IsString(a) == a.t = "str"
IsInt(a) == a.t = "int"

\* the characters the model's strings are written with
UpperCase == {"A", "D", "N", "R"}
LowerCase == {"a", "d", "n", "r", "x"}

\* c.lower() for one character
LowerChar(c) ==
    CASE c = "A" -> "a" [] c = "D" -> "d" [] c = "N" -> "n" [] c = "R" -> "r" [] OTHER -> c

\* str.lower()
lower(a) == PyStr(Vec([i \in 1..Len(a.v) |-> LowerChar(a.v[i])]))

\* str.strip()
RECURSIVE StripChars(_)
StripChars(cs) ==
    IF cs = << >> THEN cs
    ELSE IF Head(cs) = " " THEN StripChars(Tail(cs))
    ELSE IF cs[Len(cs)] = " " THEN StripChars(SubSeq(cs, 1, Len(cs) - 1))
    ELSE cs

strip(a) == PyStr(StripChars(a.v))

\* re.match('^[a-zA-Z_]', i)
MatchesIdentifierStart(a) ==
    a.v # << >> /\ a.v[1] \in UpperCase \cup LowerCase \cup {"_"}

\* a dict is the sequence of its <<key, value>> pairs
DictHas(d, k) == \E i \in 1..Len(d) : PyEq(d[i][1], k)
DictGet(d, k) == d[CHOOSE i \in 1..Len(d) : PyEq(d[i][1], k)][2]
DictPut(d, k, x) ==
    IF DictHas(d, k)
    THEN Vec([i \in 1..Len(d) |-> IF PyEq(d[i][1], k) THEN <<k, x>> ELSE d[i]])
    ELSE Append(d, <<k, x>>)
DictKeys(d) == Vec([i \in 1..Len(d) |-> d[i][1]])

\* d.update(e)
RECURSIVE dict_update(_, _)
dict_update(d, e) ==
    IF e = << >> THEN d ELSE dict_update(DictPut(d, e[1][1], e[1][2]), Tail(e))

\* dict(pairs)
dict(pairs) == dict_update(<< >>, pairs)

\* every key of e is in the sequence keys
IsSuperset(keys, e) ==
    \A i \in 1..Len(e) : \E j \in 1..Len(keys) : PyEq(keys[j], e[i][1])

\* ------------------------------------------------------------ enum
EnumItem(name, value) == [name |-> name, value |-> value]

\* enum.__check; a raised exception is kept in exc
enum__check(e, i, v) ==
    IF ~(IsString(i) /\ MatchesIdentifierStart(i)) THEN [e EXCEPT !.exc = "AttributeError"]
    ELSE IF DictHas(e.uq_names, i) THEN [e EXCEPT !.exc = "ValueError"]
    ELSE IF DictHas(e.uq_values, v) THEN [e EXCEPT !.exc = "ValueError"]
    ELSE [e EXCEPT !.uq_names = DictPut(@, i, i),
                   !.uq_namesci = DictPut(@, lower(i), i),
                   !.uq_values = DictPut(@, v, i),
                   !.uq_valuesci = IF IsString(v) THEN DictPut(@, lower(v), i) ELSE @]

\* one pass of either loop of enum.__init__: key ii, name i, value v
enum_add(e, ii, i, v) ==
    IF enum__check(e, i, v).exc # "none" THEN enum__check(e, i, v)
    ELSE [enum__check(e, i, v) EXCEPT !.dict = DictPut(@, ii, EnumItem(i, v)), !.count = @ + 1]

\* for v, i in enumerate(items)
RECURSIVE enum_items(_, _, _)
enum_items(e, items, n) ==
    IF n >= Len(items) \/ e.exc # "none" THEN e
    ELSE enum_items(enum_add(e, strip(items[n + 1]), strip(items[n + 1]), PyInt(n)), items, n + 1)

\* for i in kitems
RECURSIVE enum_kitems(_, _, _)
enum_kitems(e, kitems, n) ==
    IF n >= Len(kitems) \/ e.exc # "none" THEN e
    ELSE enum_kitems(enum_add(e, kitems[n + 1][1], strip(kitems[n + 1][1]), kitems[n + 1][2]),
                     kitems, n + 1)

enum_empty(e) == IF e.exc = "none" /\ e.count < 1 THEN [e EXCEPT !.exc = "ValueError"] ELSE e

enum__init__(items, kitems) ==
    enum_empty(enum_kitems(enum_items(
        [kind |-> "enum", uq_names |-> << >>, uq_namesci |-> << >>, uq_values |-> << >>,
         uq_valuesci |-> << >>, dict |-> << >>, count |-> 0, exc |-> "none", ret |-> None],
        items, 0), kitems, 0))

\* cmp(self.__value, other) == 0
EnumItem__eq__(item, other) == PyEq(item.value, other)

Enum_lookup(e, values, value, error) ==
    IF DictHas(values, value)
    THEN [e EXCEPT !.ret = DictGet(e.dict, DictGet(values, value)), !.exc = "none"]
    ELSE [e EXCEPT !.ret = None, !.exc = error]

Enum_parse(e, value, ignore_case) ==
    IF ignore_case
    THEN IF ~IsString(value) THEN [e EXCEPT !.ret = None, !.exc = "AttributeError"]
         ELSE Enum_lookup(e, e.uq_valuesci, lower(value), "EnumValueError")
    ELSE Enum_lookup(e, e.uq_values, value, "EnumValueError")

Enum_parsename(e, name, ignore_case) ==
    IF ignore_case
    THEN IF ~IsString(name) THEN [e EXCEPT !.ret = None, !.exc = "AttributeError"]
         ELSE Enum_lookup(e, e.uq_namesci, lower(name), "EnumMemberError")
    ELSE Enum_lookup(e, e.uq_names, name, "EnumMemberError")

\* ------------------------------------------------------------ DictionaryContainer
\* An optional argument is None or <<value>>.  keys is None until restrict is
\* stored, then the sequence of the allowed keys.
HasKey(keys, k) == \E j \in 1..Len(keys) : PyEq(keys[j], k)

DictionaryContainerBase_set(d, new_items) ==
    IF d.keys # None /\ ~IsSuperset(d.keys, dict(new_items))
    THEN [d EXCEPT !.exc = "InvalidKeyError"]
    ELSE [d EXCEPT !.items = dict(new_items), !.exc = "none"]

DictionaryContainerBase_update(d, new_items, named_items) ==
    IF d.keys # None /\ (~IsSuperset(DictKeys(d.items), dict(new_items))
                            \/ ~IsSuperset(DictKeys(d.items), named_items))
    THEN [d EXCEPT !.exc = "ItemNotFoundError"]
    ELSE [d EXCEPT !.items = dict_update(dict_update(@, dict(new_items)), named_items),
                   !.exc = "none"]

\* if restrict: self._keys = frozenset(restrict)
DictionaryContainerBase_restrict(d, restrict) ==
    IF restrict # None /\ restrict[1] # << >> THEN [d EXCEPT !.keys = restrict[1]] ELSE d

DictionaryContainerBase__init__(items, restrict) ==
    IF items = None
    THEN DictionaryContainerBase_restrict(
             [kind |-> "dict", keys |-> None, items |-> << >>, exc |-> "none", ret |-> None],
             restrict)
    ELSE DictionaryContainerBase_restrict(
             DictionaryContainerBase_set(
                 [kind |-> "dict", keys |-> None, items |-> << >>, exc |-> "none", ret |-> None],
                 items[1]),
             restrict)

DictionaryContainer__init__(items, restrict) == DictionaryContainerBase__init__(items, restrict)

DictionaryContainer_append(d, key, item) ==
    IF d.keys # None /\ ~HasKey(d.keys, key) THEN [d EXCEPT !.exc = "InvalidKeyError"]
    ELSE IF DictHas(d.items, key) THEN [d EXCEPT !.exc = "DuplicateKeyError"]
    ELSE [d EXCEPT !.items = DictPut(@, key, item), !.exc = "none"]

DictionaryContainer_set(d, new_items) == DictionaryContainerBase_set(d, new_items)

DictionaryContainer_update(d, new_items, named_items) ==
    DictionaryContainerBase_update(d, new_items, named_items)

\* ------------------------------------------------------------ CollectionContainer
\* a < b as Python 2 orders values: numbers by value, None below everything,
\* every number below every string
PyLt(a, b) ==
    CASE IsNumber(a) /\ IsNumber(b) -> RLeq(Num(a), Num(b)) /\ Num(a) # Num(b)
      [] a.t = "NoneType" -> b.t # "NoneType"
      [] b.t = "NoneType" -> FALSE
      [] IsNumber(a) /\ IsString(b) -> TRUE
      [] IsString(a) /\ IsNumber(b) -> FALSE

\* a >= b
PyGeq(a, b) == ~PyLt(a, b)

\* a + b and a - b for numbers: an int unless one operand is a float
PyAdd(a, b) ==
    IF IsInt(a) /\ IsInt(b) THEN PyInt(a.v + b.v) ELSE PyFloat(RAdd(Num(a), Num(b)))
PySub(a, b) ==
    IF IsInt(a) /\ IsInt(b) THEN PyInt(a.v - b.v)
    ELSE PyFloat(RAdd(Num(a), RMul(<<-1, 1>>, Num(b))))

\* isinstance(item, self._type) for self._type = <<"int">>
IsInstance(item, type) == item.t = type[1]

\* len(self) + self._start - 1: the value, or the TypeError of adding a string
IndexOfLast(c) ==
    IF IsNumber(c.start)
    THEN [exc |-> "none", ret |-> PySub(PyAdd(PyInt(Len(c.items)), c.start), PyInt(1))]
    ELSE [exc |-> "TypeError", ret |-> None]

CollectionContainerBase_update(c, new_items) ==
    IF c.type # None /\ \E a \in 1..Len(new_items) : ~IsInstance(new_items[a], c.type)
    THEN [c EXCEPT !.exc = "TypeError", !.ret = None]
    ELSE [c EXCEPT !.items = new_items, !.exc = "none", !.ret = None]

CollectionContainerBase_append(c, item) ==
    IF c.type # None /\ ~IsInstance(item, c.type)
    THEN [c EXCEPT !.exc = "TypeError", !.ret = None]
    ELSE [c EXCEPT !.items = Append(@, item),
                   !.exc = IndexOfLast([c EXCEPT !.items = Append(@, item)]).exc,
                   !.ret = IndexOfLast([c EXCEPT !.items = Append(@, item)]).ret]

CollectionContainerBase__init__(items, type, start) ==
    IF ~(IsInt(start) \/ PyGeq(start, PyInt(0)))
    THEN [kind |-> "list", items |-> << >>, type |-> type, start |-> PyNone,
          exc |-> "ValueError", ret |-> None]
    ELSE IF items = None
    THEN [kind |-> "list", items |-> << >>, type |-> type, start |-> start,
          exc |-> "none", ret |-> None]
    ELSE CollectionContainerBase_update(
             [kind |-> "list", items |-> << >>, type |-> type, start |-> start,
              exc |-> "none", ret |-> None],
             items[1])

\* CollectionContainerBase.__fix, for i a number; None is returned as PyNone
CollectionContainerBase__fix(c, i) ==
    IF PyGeq(i, PyInt(0))
    THEN IF PyLt(i, c.start) THEN PyNone ELSE PySub(i, c.start)
    ELSE i

start_index(c) == c.start

last_index(c) == IF Len(c.items) > 0 THEN IndexOfLast(c) ELSE [exc |-> "none", ret |-> PyNone]

\* the except clause of __getitem__: the message reads self.last_index
CollectionIndexError(c) ==
    IF Len(c.items) > 0 /\ last_index(c).exc # "none" THEN last_index(c).exc
    ELSE "CollectionIndexError"

\* self._items[j] of a Python list
ListGetItem(c, j) ==
    IF ~IsInt(j) THEN [c EXCEPT !.exc = "TypeError", !.ret = None]
    ELSE IF j.v >= Len(c.items) \/ j.v < -Len(c.items)
    THEN [c EXCEPT !.exc = CollectionIndexError(c), !.ret = None]
    ELSE IF j.v >= 0 THEN [c EXCEPT !.exc = "none", !.ret = c.items[j.v + 1]]
    ELSE [c EXCEPT !.exc = "none", !.ret = c.items[Len(c.items) + j.v + 1]]

\* CollectionContainerBase.__getitem__ for an index that is not a slice
CollectionContainerBase__getitem__(c, i) ==
    IF PyGeq(i, PyInt(0)) /\ PyLt(i, c.start)
    THEN [c EXCEPT !.exc = CollectionIndexError(c), !.ret = None]
    ELSE ListGetItem(c, CollectionContainerBase__fix(c, i))

CollectionContainer__init__(items, type, start) ==
    CollectionContainerBase__init__(items, type, start)

CollectionContainer_append(c, item) == CollectionContainerBase_append(c, item)

CollectionContainer_update(c, new_items) == CollectionContainerBase_update(c, new_items)

\* ------------------------------------------------------------ calls on the utilities
\* The utility classes are exercised by a client of their own: one object is
\* constructed, then up to MaxCalls calls are made on it.  The object is kept
\* in self, the last call in call, the number of calls in nops.
MaxCalls == 3

DNA == PyStr(<<"D", "N", "A">>)
RNA == PyStr(<<"R", "N", "A">>)
dna == PyStr(<<"d", "n", "a">>)
Rna == PyStr(<<"R", "n", "a">>)
Chr(c) == PyStr(<<c>>)

\* enum(*items, **kitems); keyword arguments arrive in either order.  Inputs
\* are listed in sequences, since values of different types are not ordered.
EnumArgs ==
    << <<<<DNA, RNA>>, << >>>>,
      <<<<DNA>>, << >>>>,
      <<<<PyStr(<<" ", "D", "N", "A">>), RNA>>, << >>>>,
      <<<<DNA, DNA>>, << >>>>,
      <<<<PyStr(<<" ">>)>>, << >>>>,
      <<<< >>, << >>>>,
      <<<< >>, <<<<DNA, Chr("d")>>, <<RNA, Chr("r")>>>>>>,
      <<<< >>, <<<<RNA, Chr("R")>>, <<DNA, Chr("d")>>>>>>,
      <<<< >>, <<<<DNA, PyInt(1)>>, <<RNA, PyInt(2)>>>>>>,
      <<<< >>, <<<<DNA, Chr("d")>>, <<dna, Chr("x")>>>>>>,
      <<<< >>, <<<<dna, Chr("x")>>, <<DNA, Chr("d")>>>>>>,
      <<<<DNA>>, <<<<RNA, PyInt(0)>>>>>> >>

ParseValues == <<Chr("d"), Chr("D"), Chr("r"), Chr("a"), PyInt(0), PyInt(1), PyInt(2)>>
ParseNames == <<DNA, dna, Rna, Chr("x")>>
CompareValues == <<PyInt(0), PyInt(1), PyInt(2), Chr("d")>>

UtilInit ==
    /\ self = [kind |-> "none", exc |-> "none", ret |-> None]
    /\ X = None
    /\ held = None
    /\ call = [op |-> "none"]
    /\ nops = 0

\* an object of the class exists (its constructor returned) and may be called
Usable(kind, ctor) ==
    /\ self.kind = kind
    /\ ~(call.op = ctor /\ self.exc # "none")
    /\ nops < MaxCalls

UtilDone(s, c) ==
    /\ self' = s
    /\ call' = c
    /\ nops' = nops + 1
    /\ UNCHANGED <<X, held>>

NewEnum ==
    /\ self.kind = "none"
    /\ \E a \in DOMAIN EnumArgs :
         UtilDone(enum__init__(EnumArgs[a][1], EnumArgs[a][2]),
                  [op |-> "enum", items |-> EnumArgs[a][1], kitems |-> EnumArgs[a][2]])

Parse ==
    /\ Usable("enum", "enum")
    /\ \E v \in DOMAIN ParseValues, ignore_case \in BOOLEAN :
         UtilDone(Enum_parse(self, ParseValues[v], ignore_case),
                  [op |-> "parse", value |-> ParseValues[v], ignore_case |-> ignore_case])

ParseName ==
    /\ Usable("enum", "enum")
    /\ \E n \in DOMAIN ParseNames, ignore_case \in BOOLEAN :
         UtilDone(Enum_parsename(self, ParseNames[n], ignore_case),
                  [op |-> "parsename", name |-> ParseNames[n], ignore_case |-> ignore_case])

\* MolTypes.<name> == other
Compare ==
    /\ Usable("enum", "enum")
    /\ \E name \in {DNA, RNA}, o \in DOMAIN CompareValues :
         /\ DictHas(self.dict, name)
         /\ UtilDone([self EXCEPT !.ret = EnumItem__eq__(DictGet(self.dict, name), CompareValues[o]),
                                  !.exc = "none"],
                     [op |-> "__cmp__", name |-> name, other |-> CompareValues[o]])

\* DictionaryContainer(items, restrict)
DictKeysIn == <<Chr("a"), Chr("d"), Chr("x")>>
DictItemsIn ==
    << << >>,
       <<<<Chr("a"), PyInt(1)>>>>,
       <<<<Chr("x"), PyInt(1)>>>>,
       <<<<Chr("a"), PyInt(2)>>, <<Chr("d"), PyInt(2)>>>> >>
RestrictIn == <<None, << << >> >>, <<<<Chr("a"), Chr("d")>>>> >>

NewDictionary ==
    /\ self.kind = "none"
    /\ \E i \in DOMAIN DictItemsIn, given \in BOOLEAN, r \in DOMAIN RestrictIn :
         /\ (~given => i = 1)
         /\ UtilDone(DictionaryContainer__init__(IF given THEN <<DictItemsIn[i]>> ELSE None,
                                                 RestrictIn[r]),
                     [op |-> "DictionaryContainer",
                      items |-> IF given THEN <<DictItemsIn[i]>> ELSE None,
                      restrict |-> RestrictIn[r]])

DictionaryAppend ==
    /\ Usable("dict", "DictionaryContainer")
    /\ \E k \in DOMAIN DictKeysIn, item \in 1..2 :
         UtilDone(DictionaryContainer_append(self, DictKeysIn[k], PyInt(item)),
                  [op |-> "append", key |-> DictKeysIn[k], item |-> PyInt(item),
                   before |-> self.items])

DictionarySet ==
    /\ Usable("dict", "DictionaryContainer")
    /\ \E i \in DOMAIN DictItemsIn :
         UtilDone(DictionaryContainer_set(self, DictItemsIn[i]),
                  [op |-> "set", new_items |-> DictItemsIn[i], before |-> self.items])

DictionaryUpdate ==
    /\ Usable("dict", "DictionaryContainer")
    /\ \E i \in DOMAIN DictItemsIn, n \in 1..3 :
         UtilDone(DictionaryContainer_update(self, DictItemsIn[i], DictItemsIn[n]),
                  [op |-> "update", new_items |-> DictItemsIn[i], named_items |-> DictItemsIn[n],
                   before |-> self.items])

\* CollectionContainer(items, type, start_index)
StartIn ==
    <<PyInt(0), PyInt(1), PyInt(2), PyInt(-1), PyFloat(<<3, 2>>), PyFloat(<<-1, 2>>),
      Chr("a"), PyNone>>
ListItemsIn == <<PyInt(7), PyInt(8), Chr("x")>>
ListsIn == << << >>, <<PyInt(7)>>, <<Chr("x"), PyInt(8)>> >>
TypeIn == <<None, <<"int">>>>
IndexIn == <<PyInt(-1), PyInt(0), PyInt(1), PyInt(2), PyInt(3)>>

NewCollection ==
    /\ self.kind = "none"
    /\ \E l \in DOMAIN ListsIn, given \in BOOLEAN, t \in DOMAIN TypeIn, s \in DOMAIN StartIn :
         /\ (~given => l = 1)
         /\ UtilDone(CollectionContainer__init__(IF given THEN <<ListsIn[l]>> ELSE None,
                                                 TypeIn[t], StartIn[s]),
                     [op |-> "CollectionContainer",
                      items |-> IF given THEN <<ListsIn[l]>> ELSE None,
                      type |-> TypeIn[t], start_index |-> StartIn[s]])

CollectionAppend ==
    /\ Usable("list", "CollectionContainer")
    /\ \E i \in DOMAIN ListItemsIn :
         UtilDone(CollectionContainer_append(self, ListItemsIn[i]),
                  [op |-> "append", item |-> ListItemsIn[i], before |-> self.items])

CollectionUpdate ==
    /\ Usable("list", "CollectionContainer")
    /\ \E l \in DOMAIN ListsIn :
         UtilDone(CollectionContainer_update(self, ListsIn[l]),
                  [op |-> "update", new_items |-> ListsIn[l], before |-> self.items])

\* container[i]
CollectionGetItem ==
    /\ Usable("list", "CollectionContainer")
    /\ \E i \in DOMAIN IndexIn :
         UtilDone(CollectionContainerBase__getitem__(self, IndexIn[i]),
                  [op |-> "__getitem__", i |-> IndexIn[i]])

\* container[i] for the index i that append has just returned
CollectionGetAppended ==
    /\ Usable("list", "CollectionContainer")
    /\ call.op = "append"
    /\ self.exc = "none"
    /\ UtilDone(CollectionContainerBase__getitem__(self, self.ret),
                [op |-> "__getitem__", i |-> self.ret])

UtilNext ==
    \/ NewEnum
    \/ Parse
    \/ ParseName
    \/ Compare
    \/ NewDictionary
    \/ DictionaryAppend
    \/ DictionarySet
    \/ DictionaryUpdate
    \/ NewCollection
    \/ CollectionAppend
    \/ CollectionUpdate
    \/ CollectionGetItem
    \/ CollectionGetAppended

UtilSpec == UtilInit /\ [][UtilNext]_vars

\* ============================================================ claims on csb.pyutils
\* the enum of the class docstring: MolTypes = enum('DNA', 'RNA')
MolTypes == enum__init__(<<DNA, RNA>>, << >>)

\* C11: an enum built from positional names gives the i-th name, counting
\* from 1, the integer value i; for enum('DNA', 'RNA') the comparison
\* MolTypes.DNA == 1 is true.
C11_PositionalValuesFromOne ==
    /\ (call.op = "enum" /\ self.exc = "none") =>
         \A i \in 1..Len(call.items) :
             PyEq(DictGet(self.dict, strip(call.items[i])).value, PyInt(i))
    /\ (call.op = "__cmp__" /\ self.dict = MolTypes.dict
            /\ call.name = DNA /\ PyEq(call.other, PyInt(1))) =>
         self.ret = TRUE

\* the names of the members of the enum e
MemberNames(e) == DictKeys(e.uq_names)

\* the two names are the same, up to case when ignore_case is set
SameName(a, b, ignore_case) ==
    IF ignore_case THEN lower(a).v = lower(b).v ELSE a.v = b.v

\* C12: Enum.parsename(enum, name) returns the member with that name when it
\* exists (case-insensitively by default) and raises EnumValueError when no
\* member of the enum has that name.
C12_ParsenameRaisesEnumValueError ==
    call.op = "parsename" =>
        IF \E i \in 1..Len(MemberNames(self)) :
               SameName(MemberNames(self)[i], call.name, call.ignore_case)
        THEN /\ self.exc = "none"
             /\ SameName(self.ret.name, call.name, call.ignore_case)
        ELSE self.exc = "EnumValueError"

\* the first half of C12 alone: an existing name is found
C12_ParsenameFindsMember ==
    (call.op = "parsename"
        /\ \E i \in 1..Len(MemberNames(self)) :
               SameName(MemberNames(self)[i], call.name, call.ignore_case)) =>
        /\ self.exc = "none"
        /\ SameName(self.ret.name, call.name, call.ignore_case)

\* the values of the members of the enum e
MemberValues(e) == DictKeys(e.uq_values)

\* C13: for every enum and every member with value v, a string or an integer,
\* Enum.parse(enum, v) with the default ignore_case=True returns that member;
\* for a value that no member has it raises EnumValueError and nothing else.
C13_ParseFindsEveryValue ==
    (call.op = "parse" /\ call.ignore_case) =>
        IF \E i \in 1..Len(MemberValues(self)) : PyEq(MemberValues(self)[i], call.value)
        THEN /\ self.exc = "none"
             /\ PyEq(self.ret.value, call.value)
        ELSE self.exc = "EnumValueError"

\* C13 for string values only
C13_ParseFindsStringValue ==
    (call.op = "parse" /\ call.ignore_case /\ IsString(call.value)) =>
        IF \E i \in 1..Len(MemberValues(self)) : PyEq(MemberValues(self)[i], call.value)
        THEN /\ self.exc = "none"
             /\ PyEq(self.ret.value, call.value)
        ELSE self.exc \in {"none", "EnumValueError"}

\* C14: for a DictionaryContainer constructed with a non-empty restrict list,
\* in every reachable state (right after construction with any items
\* argument, and after any sequence of successful or failing append, set and
\* update calls) every key stored in the container is one of the restrict
\* keys; a call that is rejected leaves the stored items unchanged.
C14_StoredKeysAreRestrictKeys ==
    (self.kind = "dict" /\ self.keys # None
        /\ ~(call.op = "DictionaryContainer" /\ self.exc # "none")) =>
        /\ IsSuperset(self.keys, self.items)
        /\ (call.op \in {"append", "set", "update"} /\ self.exc # "none") =>
               self.items = call.before

\* the second half of C14 alone: a rejected call changes nothing
C14_RejectedCallChangesNothing ==
    (self.kind = "dict" /\ call.op \in {"append", "set", "update"} /\ self.exc # "none") =>
        self.items = call.before

\* a call is rejected on a container that holds items
C14_Rejected ==
    /\ self.kind = "dict"
    /\ call.op \in {"append", "set", "update"}
    /\ self.exc # "none"
    /\ self.items # << >>

\* C15: constructing a CollectionContainer with a start_index that is
\* negative or that is not an integer raises ValueError; so every constructed
\* container has an integer start_index >= 0.
C15_StartIndexValidated ==
    /\ (call.op = "CollectionContainer"
            /\ (~IsInt(call.start_index) \/ call.start_index.v < 0)) =>
           self.exc = "ValueError"
    /\ (self.kind = "list" /\ ~(call.op = "CollectionContainer" /\ self.exc # "none")) =>
           (IsInt(start_index(self)) /\ start_index(self).v >= 0)

\* a CollectionContainer exists: its constructor returned
IsCollection ==
    self.kind = "list" /\ ~(call.op = "CollectionContainer" /\ self.exc # "none")

\* append has just returned an index
AppendReturned == IsCollection /\ call.op = "append" /\ self.exc = "none"

\* the returned index leads to the appended item, is last_index, and is
\* start_index + len(container) - 1
ReturnedIndexIsLast ==
    /\ CollectionContainerBase__getitem__(self, self.ret).exc = "none"
    /\ PyEq(CollectionContainerBase__getitem__(self, self.ret).ret, call.item)
    /\ last_index(self).exc = "none"
    /\ PyEq(self.ret, last_index(self).ret)
    /\ Num(self.ret) = RAdd(Num(start_index(self)), <<Len(self.items) - 1, 1>>)

\* the indexes 0 .. start_index-1 raise CollectionIndexError
IndexesBelowStartRaise ==
    \A i \in 0..3 :
        PyLt(PyInt(i), start_index(self)) =>
            CollectionContainerBase__getitem__(self, PyInt(i)).exc = "CollectionIndexError"

\* C16: for a CollectionContainer with any start_index >= 0 and after any
\* sequence of append and update calls, append(item) returns an index i such
\* that container[i] is the appended item, i equals last_index and equals
\* start_index + len(container) - 1; indexes 0 .. start_index-1 raise
\* CollectionIndexError.
C16_AppendReturnsIndexOfItem ==
    (IsCollection /\ IsNumber(start_index(self)) /\ PyGeq(start_index(self), PyInt(0))) =>
        /\ AppendReturned => ReturnedIndexIsLast
        /\ IndexesBelowStartRaise

\* C16 for the containers whose start_index is an integer
C16_IntegerStartIndex ==
    (IsCollection /\ IsInt(start_index(self)) /\ start_index(self).v >= 0) =>
        /\ AppendReturned => ReturnedIndexIsLast
        /\ IndexesBelowStartRaise

\* an append after an update on a container that starts at 2
C16_AppendedAfterUpdate ==
    /\ AppendReturned
    /\ start_index(self) = PyInt(2)
    /\ Len(self.items) = 3
    /\ self.ret = PyInt(4)

\* ============================================================ claims on the steps of EM
\* the names of the functions called, in call order, get_delta left out
CallNames == Vec([i \in 1..Len(Events({"m_step", "e_step", "estimate_Y", "estimate_T",
                                        "estimate_w", "estimate_sigma", "log_likelihood",
                                        "log_likelihood_reduced", "initialize"})) |->
                  Events({"m_step", "e_step", "estimate_Y", "estimate_T",
                          "estimate_w", "estimate_sigma", "log_likelihood",
                          "log_likelihood_reduced", "initialize"})[i].f])

\* i repetitions of estimate_Y followed by estimate_T
RECURSIVE InnerNames(_)
InnerNames(i) == IF i = 0 THEN << >> ELSE <<"estimate_Y", "estimate_T">> \o InnerNames(i - 1)

\* sigma**2 as estimate_sigma computes it from the distance tensor D
SigmaFrom(Z, D) ==
    estimate_sigma_sqrt(self,
        estimate_sigma_alpha(self, get_dimension(self, Z), colsum(Z, self.K)),
        estimate_sigma_beta(self, colsum(times(Z, D), self.K))).sigma2

\* C17: m_step(X, Z) calls, in this order and nothing else, n_inner
\* repetitions of estimate_Y followed by estimate_T, then estimate_w(Z) once,
\* then estimate_sigma(X, Z) once; when it returns the cache is present and
\* equals calculate_delta at the final (Y, R, t), and sigma was computed from
\* that same distance tensor.
C17_MStepOrderAndCache ==
    call.op = "m_step" =>
        /\ self.exc = "none"
        /\ CallNames = <<"m_step">> \o InnerNames(n_inner) \o <<"estimate_w", "estimate_sigma">>
        /\ Len(Events({"get_delta"})) = 1
        /\ self.trace[Len(self.trace)].f = "get_delta"
        /\ self.cache # None
        /\ self.cache = calculate_delta(self, X)
        /\ self.trace[Len(self.trace)].ret = self.cache
        /\ self.sigma2 = SigmaFrom(call.Z, self.cache)

\* an m_step has moved the model: the weights are no longer uniform and the
\* distance tensor holds a non-zero distance
C17_MStepRefitted ==
    /\ call.op = "m_step"
    /\ self.exc = "none"
    /\ \E k \in 1..self.K : self.w[k] # Frac(1, self.K)
    /\ \E i \in 1..Len(self.cache) : \E k \in 1..self.K : self.cache[i][k] # 0

\* C18: e_step(X) changes no model state except the cache: when it returns
\* the cache is empty, and Y, R, t, sigma, w, beta and the stored self.Z are
\* exactly what they were before the call; the new responsibilities are only
\* returned.
C18_EStepChangesOnlyCache ==
    [][call'.op = "e_step" =>
           /\ self'.exc = "none"
           /\ self'.cache = None
           /\ self'.Y = self.Y
           /\ self'.R = self.R
           /\ self'.t = self.t
           /\ self'.sigma2 = self.sigma2
           /\ self'.w = self.w
           /\ self'.beta = self.beta
           /\ self'.Z = self.Z
           /\ self'.ret = self'.trace[Len(self'.trace)].ret]_vars

\* e_step has returned responsibilities that differ from the stored self.Z,
\* on a model whose previous m_step had filled the cache
C18_EStepAfterMStep ==
    /\ call.op = "e_step"
    /\ self.exc = "none"
    /\ self.Z # None
    /\ self.ret # self.Z
    /\ self.cache = None

\* em was asked for no logging: store_loglikelihood=False and verbose=0
NoLogging == ~call.store_loglikelihood /\ call.verbose = 0

\* C19: em called with eps=None, store_loglikelihood=False and verbose=0
\* never evaluates log_likelihood and runs exactly n_iter E/M cycles; with
\* eps=None and logging requested the likelihood is evaluated but em still
\* never stops before n_iter cycles.
C19_EmWithoutEpsRunsAllCycles ==
    (call.op = "em" /\ call.eps = None) =>
        /\ IsCycles(call.n_iter, FALSE)
        /\ IF NoLogging THEN Len(Events({"log_likelihood"})) = 0
           ELSE Len(LoopEvents({"log_likelihood"})) >= 1

\* the same for the calls of em that return
C19_EmReturned ==
    (call.op = "em" /\ call.eps = None /\ self.exc = "none") =>
        /\ IsCycles(call.n_iter, FALSE)
        /\ IF NoLogging THEN Len(Events({"log_likelihood"})) = 0
           ELSE Len(LoopEvents({"log_likelihood"})) >= 1

\* em has run MaxIter cycles without evaluating the likelihood
C19_SilentRun ==
    /\ call.op = "em" /\ call.eps = None /\ self.exc = "none"
    /\ NoLogging
    /\ call.n_iter = MaxIter
    /\ IsCycles(MaxIter, FALSE)

\* initialize of a segment variant (SegmentMixture2 inherits it) has been called
SegmentInitialized == call.op = "initialize" /\ self.cls # "ConformerMixture"

\* C20: SegmentMixture.initialize(X) sets self.Z to an N x K matrix whose
\* entries are all 0 or 1 with exactly one 1 in every row (a hard partition
\* of the N atoms into the K segments, so column sums total N), and then runs
\* exactly one m_step with that Z and no e_step.
C20_InitializeHardPartition ==
    SegmentInitialized =>
        /\ self.exc = "none"
        /\ Len(self.Z) = self.N
        /\ \A n \in 1..self.N :
             /\ Len(self.Z[n]) = self.K
             /\ \A k \in 1..self.K : self.Z[n][k] \in {<<0, 1>>, <<1, 1>>}
             /\ Cardinality({k \in 1..self.K : self.Z[n][k] = <<1, 1>>}) = 1
        /\ RSum(colsum(self.Z, self.K)) = <<self.N, 1>>
        /\ CallNames = <<"initialize", "m_step">> \o InnerNames(n_inner)
                           \o <<"estimate_w", "estimate_sigma">>
        /\ \A k \in 1..self.K : self.w[k] = RDiv(colsum(self.Z, self.K)[k], <<self.N, 1>>)
        /\ self.sigma2 = SigmaFrom(self.Z, self.cache)

\* initialize has drawn a partition in which every segment holds an atom
C20_EverySegmentFilled ==
    /\ SegmentInitialized
    /\ self.exc = "none"
    /\ \A k \in 1..self.K : \E n \in 1..self.N : self.Z[n][k] = <<1, 1>>

====
